---- MODULE Spec2Model ----
(***************************************************************************)
(* Model of the wildfire evacuation router: EvacuationService (distance,   *)
(* fire-proximity filter, nearest-safe-point selection, route request)     *)
(* and the asynchronous findSafestRoute calls made against it.             *)
(*                                                                         *)
(* Numbers.  Coordinates live on a grid of GridStep = 0.03 degree around   *)
(* (34.00 N, 118.27 W): a Location is [lat |-> i, lng |-> j] standing for  *)
(* (34.00 + 0.03 i, -118.27 + 0.03 j).  Floating-point values are carried  *)
(* in fixed point: angles and sines in units of 1e-6 (Micro), cosines in   *)
(* units of 1e-3 (Milli), the haversine term a in units of 1e-12, and      *)
(* distances in whole metres.  NaN is a value of its own that every        *)
(* arithmetic operation propagates and every comparison rejects.           *)
(***************************************************************************)
EXTENDS Integers, Sequences, FiniteSets, TLC

\* ------------------------------------------------------------------ bounds
MaxDests == 2
MaxFires == 2
MaxRoutes == 2
MaxCalls == 3
MaxEntries == 2
MaxRefreshes == 2
MaxRuns == 2

\* --------------------------------------------------------------- constants
NaN == -1
Null == [kind |-> "null"]
Micro == 1000000
Milli == 1000
\* 0.03 degree, the grid step, in micro-radians (0.03 * PI / 180 = 523.6e-6)
GridStepMicroRad == 524
\* cos(34.00 degree) = 0.829038 and its change per grid step, -sin(34) * 523.6e-6
CosBaseMicro == 829038
CosSlopeMicro == 293
\* Earth's radius in metres
R == 6371000
DefaultSafetyRadius == 5000

IsNaN(x) == x = NaN

\* JavaScript's x < y on numbers: false as soon as one side is NaN
Lt(x, y) == ~IsNaN(x) /\ ~IsNaN(y) /\ x < y

\* ------------------------------------------------------------ Math library
\* Math.sin for the angles of the grid (|x| < 2000 micro-radians): the cubic
\* term x^3/6 is below 1e-9, so the result at 1e-6 resolution is x itself
Sin(x) == x

\* Math.cos of the latitude of grid row lat, in Milli units (first-order
\* expansion around 34.00 degree)
Cos(lat) == (CosBaseMicro - CosSlopeMicro * lat) \div Milli

RECURSIVE SqrtIter(_, _, _)
SqrtIter(x, lo, hi) ==
  IF lo >= hi THEN lo
  ELSE LET mid == (lo + hi + 1) \div 2
       IN IF mid * mid <= x THEN SqrtIter(x, mid, hi) ELSE SqrtIter(x, lo, mid - 1)

\* Math.sqrt of a value in 1e-12 units, result in Micro units (rounded down)
Sqrt(x) == SqrtIter(x, 0, 2047)

\* Math.sqrt(1 - a) for a in 1e-12 units, result in Micro units:
\* 1 - a/2 to first order
SqrtOneMinus(a) == Micro - (a \div Micro) \div 2

\* Math.atan2(y, x) for 0 <= y << x, both in Micro units, result in
\* micro-radians: y/x, the cubic term being below the resolution
Atan2(y, x) == (y * Micro) \div x

\* ------------------------------------------------------- EvacuationService
\* calculateDistance with the cosine of the first latitude taken twice
calculateDistance_OneCosine(point1, point2) ==
  IF IsNaN(point1.lat) \/ IsNaN(point1.lng) \/ IsNaN(point2.lat) \/ IsNaN(point2.lng)
  THEN NaN
  ELSE LET cosPhi1 == Cos(point1.lat)
           halfDeltaPhi == ((point2.lat - point1.lat) * GridStepMicroRad) \div 2
           halfDeltaLambda == ((point2.lng - point1.lng) * GridStepMicroRad) \div 2
           a == Sin(halfDeltaPhi) * Sin(halfDeltaPhi)
                + (((cosPhi1 * cosPhi1) \div Milli)
                   * (Sin(halfDeltaLambda) * Sin(halfDeltaLambda))) \div Milli
           c == 2 * Atan2(Sqrt(a), SqrtOneMinus(a))
       IN ((R \div Milli) * c) \div Milli

\* calculateDistance with the second latitude (counted from the southern
\* row of the grid) in place of the difference of the latitudes
calculateDistance_NoLatitudeDifference(point1, point2) ==
  IF IsNaN(point1.lat) \/ IsNaN(point1.lng) \/ IsNaN(point2.lat) \/ IsNaN(point2.lng)
  THEN NaN
  ELSE LET cosPhi1 == Cos(point1.lat)
           cosPhi2 == Cos(point2.lat)
           halfDeltaPhi == (point2.lat * GridStepMicroRad) \div 2
           halfDeltaLambda == ((point2.lng - point1.lng) * GridStepMicroRad) \div 2
           a == Sin(halfDeltaPhi) * Sin(halfDeltaPhi)
                + (((cosPhi1 * cosPhi2) \div Milli)
                   * (Sin(halfDeltaLambda) * Sin(halfDeltaLambda))) \div Milli
           c == 2 * Atan2(Sqrt(a), SqrtOneMinus(a))
       IN ((R \div Milli) * c) \div Milli

calculateDistance(point1, point2) ==
  IF IsNaN(point1.lat) \/ IsNaN(point1.lng) \/ IsNaN(point2.lat) \/ IsNaN(point2.lng)
  THEN NaN
  ELSE LET cosPhi1 == Cos(point1.lat)
           cosPhi2 == Cos(point2.lat)
           halfDeltaPhi == ((point2.lat - point1.lat) * GridStepMicroRad) \div 2
           halfDeltaLambda == ((point2.lng - point1.lng) * GridStepMicroRad) \div 2
           a == Sin(halfDeltaPhi) * Sin(halfDeltaPhi)
                + (((cosPhi1 * cosPhi2) \div Milli)
                   * (Sin(halfDeltaLambda) * Sin(halfDeltaLambda))) \div Milli
           c == 2 * Atan2(Sqrt(a), SqrtOneMinus(a))
       IN ((R \div Milli) * c) \div Milli

FireLocation(fire) == [lat |-> fire.latitude, lng |-> fire.longitude]

\* FireTooClose looking at the start point only
FireTooClose_StartOnly(location, safePoint, fire, safetyRadius) ==
  LET distanceToStart == calculateDistance(location, FireLocation(fire))
  IN Lt(distanceToStart, safetyRadius)

\* FireTooClose looking at the destination only
FireTooClose_EndOnly(location, safePoint, fire, safetyRadius) ==
  LET distanceToEnd == calculateDistance(safePoint.location, FireLocation(fire))
  IN Lt(distanceToEnd, safetyRadius)

\* the callback of activeFires.some(...) in isRouteSafe
FireTooClose(location, safePoint, fire, safetyRadius) ==
  LET distanceToStart == calculateDistance(location, FireLocation(fire))
      distanceToEnd == calculateDistance(safePoint.location, FireLocation(fire))
  IN Lt(distanceToStart, safetyRadius) \/ Lt(distanceToEnd, safetyRadius)

\* Array.prototype.some over activeFires, from index k on
RECURSIVE SomeFireTooClose(_, _, _, _, _)
SomeFireTooClose(location, safePoint, activeFires, safetyRadius, k) ==
  IF k > Len(activeFires) THEN FALSE
  ELSE IF FireTooClose(location, safePoint, activeFires[k], safetyRadius) THEN TRUE
  ELSE SomeFireTooClose(location, safePoint, activeFires, safetyRadius, k + 1)

isRouteSafe(location, safePoint, activeFires, safetyRadius) ==
  ~SomeFireTooClose(location, safePoint, activeFires, safetyRadius, 1)

\* SafeCandidates without the filter
SafeCandidates_Unfiltered(location, safePoints, activeFires) == safePoints

\* Array.prototype.filter with the isRouteSafe predicate
SafeCandidates(location, safePoints, activeFires) ==
  LET Keep(point) == isRouteSafe(location, point, activeFires, DefaultSafetyRadius)
  IN SelectSeq(safePoints, Keep)

\* ReduceStep comparing with <= : a later candidate wins a tie
ReduceStep_LastOnTie(location, nearest, point) ==
  LET distance == calculateDistance(location, point.location)
      nearestDistance == calculateDistance(location, nearest.location)
  IN IF Lt(distance, nearestDistance) \/ (~IsNaN(distance) /\ distance = nearestDistance)
     THEN point ELSE nearest

\* the callback of safeCandidates.reduce(...)
ReduceStep(location, nearest, point) ==
  LET distance == calculateDistance(location, point.location)
      nearestDistance == calculateDistance(location, nearest.location)
  IN IF Lt(distance, nearestDistance) THEN point ELSE nearest

\* Array.prototype.reduce without an initial value: the accumulator starts
\* as element 1 and the callback runs on elements 2..Len
RECURSIVE Reduce(_, _, _, _)
Reduce(location, cands, k, nearest) ==
  IF k > Len(cands) THEN nearest
  ELSE Reduce(location, cands, k + 1, ReduceStep(location, nearest, cands[k]))

\* what Array.prototype.reduce throws on an empty array without initial value
TypeError == [kind |-> "TypeError"]

\* findNearestSafePoint without the test for an empty candidate list
findNearestSafePoint_NoEmptyCheck(location, safePoints, activeFires) ==
  LET safeCandidates == SafeCandidates(location, safePoints, activeFires)
  IN IF Len(safeCandidates) = 0 THEN TypeError
     ELSE Reduce(location, safeCandidates, 2, safeCandidates[1])

findNearestSafePoint(location, safePoints, activeFires) ==
  LET safeCandidates == SafeCandidates(location, safePoints, activeFires)
  IN IF Len(safeCandidates) = 0 THEN Null
     ELSE Reduce(location, safeCandidates, 2, safeCandidates[1])


\* Mapbox Directions client: the synchronous head of getEvacuationRoute, up
\* to the await of axios.get.  rec is the record of the findSafestRoute call
\* on whose behalf it runs.
getEvacuationRoute(rec, start, end, accessToken) ==
  IF ~accessToken
  THEN [rec EXCEPT !.pc = "awaitRoute",
                   !.log = Append(@, "Mapbox access token is missing"),
                   !.route = [status |-> "fulfilled", value |-> Null]]
  ELSE [rec EXCEPT !.pc = "awaitAxios",
                   !.requests = Append(@, [start |-> start, end |-> end])]

\* const route = response.data.routes[0]; return { geometry, duration, distance }
RouteDataOf(route) ==
  [geometry |-> route.geometry, duration |-> route.duration, distance |-> route.distance]

\* TryRoute with routes[0] || {} : an empty route list yields an empty object
TryRoute_EmptyObject(response) ==
  IF response.kind \in {"reject", "nodata"}
  THEN [threw |-> TRUE, value |-> Null, log |-> <<>>]
  ELSE IF response.kind = "noroutes"
  THEN [threw |-> FALSE, value |-> Null, log |-> <<"No routes found">>]
  ELSE IF Len(response.routes) = 0
  THEN [threw |-> FALSE,
        value |-> [geometry |-> <<>>, duration |-> 0, distance |-> 0], log |-> <<>>]
  ELSE [threw |-> FALSE, value |-> RouteDataOf(response.routes[1]), log |-> <<>>]

\* TryRoute returning the last candidate of the response
TryRoute_LastCandidate(response) ==
  IF response.kind \in {"reject", "nodata"}
  THEN [threw |-> TRUE, value |-> Null, log |-> <<>>]
  ELSE IF response.kind = "noroutes" \/ Len(response.routes) = 0
  THEN [threw |-> FALSE, value |-> Null, log |-> <<"No routes found">>]
  ELSE [threw |-> FALSE,
        value |-> RouteDataOf(response.routes[Len(response.routes)]), log |-> <<>>]

\* the body of the try block of getEvacuationRoute once axios.get has
\* settled: either it throws or it returns a value (and may log)
TryRoute(response) ==
  IF response.kind = "reject"
  THEN [threw |-> TRUE, value |-> Null, log |-> <<>>]
  ELSE IF response.kind = "nodata"
  THEN [threw |-> TRUE, value |-> Null, log |-> <<>>]
  ELSE IF response.kind = "noroutes" \/ Len(response.routes) = 0
  THEN [threw |-> FALSE, value |-> Null, log |-> <<"No routes found">>]
  ELSE [threw |-> FALSE, value |-> RouteDataOf(response.routes[1]), log |-> <<>>]

\* getEvacuationRoute_resume whose catch clause repeats the request once
getEvacuationRoute_resume_Retry(rec, response) ==
  LET body == TryRoute(response)
  IN IF body.threw
     THEN IF Len(rec.requests) < 2
          THEN [rec EXCEPT !.pc = "awaitAxios",
                           !.log = Append(@, "Error calculating route:"),
                           !.requests = Append(@, rec.requests[1])]
          ELSE [rec EXCEPT !.pc = "awaitRoute",
                           !.response = response,
                           !.log = Append(@, "Error calculating route:"),
                           !.route = [status |-> "fulfilled", value |-> Null]]
     ELSE [rec EXCEPT !.pc = "awaitRoute",
                      !.response = response,
                      !.log = @ \o body.log,
                      !.route = [status |-> "fulfilled", value |-> body.value]]

\* the rest of getEvacuationRoute: try body, then the catch clause
getEvacuationRoute_resume(rec, response) ==
  LET body == TryRoute(response)
  IN IF body.threw
     THEN [rec EXCEPT !.pc = "awaitRoute",
                      !.response = response,
                      !.log = Append(@, "Error calculating route:"),
                      !.route = [status |-> "fulfilled", value |-> Null]]
     ELSE [rec EXCEPT !.pc = "awaitRoute",
                      !.response = response,
                      !.log = @ \o body.log,
                      !.route = [status |-> "fulfilled", value |-> body.value]]

\* findSafestRoute without the test for an empty catalog
findSafestRoute_NoEmptyCheck(rec, userLocation, safePoints, activeFires, accessToken) ==
  LET in == [rec EXCEPT !.userLocation = userLocation,
                        !.safePoints = safePoints,
                        !.activeFires = activeFires]
      nearest == findNearestSafePoint(userLocation, safePoints, activeFires)
  IN IF nearest = Null
     THEN [in EXCEPT !.pc = "done", !.exit = "L78", !.ret = Null,
                     !.log = Append(@, "No safe evacuation points found")]
     ELSE getEvacuationRoute([in EXCEPT !.nearest = nearest],
                             userLocation, nearest.location, accessToken)

\* findSafestRoute asking for a route to the first safe point of the catalog
\* when the selector has found none
findSafestRoute_RequestWithoutSelection(rec, userLocation, safePoints, activeFires, accessToken) ==
  LET in == [rec EXCEPT !.userLocation = userLocation,
                        !.safePoints = safePoints,
                        !.activeFires = activeFires]
  IN IF Len(safePoints) = 0
     THEN [in EXCEPT !.pc = "done", !.exit = "L70", !.ret = Null,
                     !.log = Append(@, "No safe points available")]
     ELSE LET nearest == findNearestSafePoint(userLocation, safePoints, activeFires)
          IN IF nearest = Null
             THEN getEvacuationRoute(in, userLocation, safePoints[1].location, accessToken)
             ELSE getEvacuationRoute([in EXCEPT !.nearest = nearest],
                                     userLocation, nearest.location, accessToken)

\* findSafestRoute from its entry to its first await (or early return)
findSafestRoute(rec, userLocation, safePoints, activeFires, accessToken) ==
  LET in == [rec EXCEPT !.userLocation = userLocation,
                        !.safePoints = safePoints,
                        !.activeFires = activeFires]
  IN IF Len(safePoints) = 0
     THEN [in EXCEPT !.pc = "done", !.exit = "L70", !.ret = Null,
                     !.log = Append(@, "No safe points available")]
     ELSE LET nearest == findNearestSafePoint(userLocation, safePoints, activeFires)
          IN IF nearest = Null
             THEN [in EXCEPT !.pc = "done", !.exit = "L78", !.ret = Null,
                             !.log = Append(@, "No safe evacuation points found")]
             ELSE getEvacuationRoute([in EXCEPT !.nearest = nearest],
                                     userLocation, nearest.location, accessToken)

\* findSafestRoute after the await of getEvacuationRoute: return route, or
\* the catch clause when the awaited promise was rejected
findSafestRoute_resume(rec) ==
  IF rec.route.status = "rejected"
  THEN [rec EXCEPT !.pc = "done", !.exit = "L86", !.ret = Null,
                   !.log = Append(@, "Error finding safe route:")]
  ELSE [rec EXCEPT !.pc = "done", !.exit = "L83", !.ret = rec.route.value]

\* ---------------------------------------- EvacuationService.getActiveFires
\* JavaScript values found in the entries of the FIRMS response.  A value is
\* [type, v]: v is the number itself for a number, and what Number() makes
\* of it for a string.  Zero is the number 0, which no grid point stands
\* for; like NaN it is carried as a value of its own.
Zero == 0 - 2
JsUndefined == [type |-> "undefined", v |-> NaN]
JsNumber(n) == [type |-> "number", v |-> n]
JsString(n) == [type |-> "string", v |-> n]

\* ToBoolean: undefined, NaN and 0 are falsy, a non-empty string is truthy
Truthy(x) ==
  IF x.type = "undefined" THEN FALSE
  ELSE IF x.type = "number" THEN ~IsNaN(x.v) /\ x.v # Zero
  ELSE TRUE

\* Number(x)
ToNumber(x) == IF x.type = "undefined" THEN NaN ELSE x.v

\* the global isNaN(x): Number(x) is NaN
JsIsNaN(x) == IsNaN(ToNumber(x))

\* KeepFire testing the latitude only
KeepFire_LatitudeOnly(fire) ==
  /\ Truthy(fire.latitude)
  /\ ~JsIsNaN(fire.latitude)

\* the filter callback of getActiveFires
KeepFire(fire) ==
  /\ Truthy(fire.latitude)
  /\ Truthy(fire.longitude)
  /\ ~JsIsNaN(fire.latitude)
  /\ ~JsIsNaN(fire.longitude)

\* the map callback of getActiveFires (confidence, date and brightness play
\* no part in the routing and are left out)
ToFireData(fire) ==
  [latitude |-> ToNumber(fire.latitude), longitude |-> ToNumber(fire.longitude)]

\* response.data.filter(...).map(...)
RECURSIVE FilterMapFires(_, _)
FilterMapFires(data, k) ==
  IF k > Len(data) THEN <<>>
  ELSE IF KeepFire(data[k]) THEN <<ToFireData(data[k])>> \o FilterMapFires(data, k + 1)
  ELSE FilterMapFires(data, k + 1)

\* the body of the try block of getActiveFires once axios.get has settled:
\* a rejection throws, and so does reading fire.latitude of an entry that is
\* null; a body that is missing or is not an array gives [] without a word
TryFires(response) ==
  IF response.kind = "reject"
  THEN [threw |-> TRUE, value |-> <<>>]
  ELSE IF response.kind \in {"nodata", "notarray"}
  THEN [threw |-> FALSE, value |-> <<>>]
  ELSE IF \E k \in 1..Len(response.data) : response.data[k].type = "null"
  THEN [threw |-> TRUE, value |-> <<>>]
  ELSE [threw |-> FALSE, value |-> FilterMapFires(response.data, 1)]

\* getActiveFires from its entry to the await of axios.get (or early return);
\* rec is the record of the activation
getActiveFires(rec, apiKey) ==
  IF ~apiKey
  THEN [rec EXCEPT !.pc = "done", !.exit = "L13", !.ret = <<>>,
                   !.log = Append(@, "NASA FIRMS API key is missing")]
  ELSE [rec EXCEPT !.pc = "awaitAxios", !.requests = @ + 1]

\* the rest of getActiveFires: try body, then the catch clause
getActiveFires_resume(rec, response) ==
  LET body == TryFires(response)
  IN IF body.threw
     THEN [rec EXCEPT !.pc = "done", !.exit = "L42", !.response = response,
                      !.ret = <<>>,
                      !.log = Append(@, "Error fetching fire data:")]
     ELSE [rec EXCEPT !.pc = "done",
                      !.exit = IF response.kind = "array" THEN "L25" ELSE "L22",
                      !.response = response,
                      !.ret = body.value]

\* ------------------------------------------------------------ EvacuationMap
\* a marker of markersRef.current
FireMarker(fire) == [type |-> "fire", lng |-> fire.longitude, lat |-> fire.latitude]
UserMarker(location) == [type |-> "user", lng |-> location.lng, lat |-> location.lat]
SafePointMarker(point) ==
  [type |-> "safe-point", lng |-> point.location.lng, lat |-> point.location.lat]

IsFireMarker(m) == m.type = "fire"
NotFireMarker(m) == m.type # "fire"
NotUserMarker(m) == m.type # "user"

\* the fires that get a feature and a marker: numbers, not NaN
Drawable(fire) == ~IsNaN(fire.latitude) /\ ~IsNaN(fire.longitude)

\* DisplayFires leaving the markers of the earlier fetch in place
DisplayFires_KeepMarkers(u, fires) ==
  LET shown == SelectSeq(fires, Drawable)
  IN [u EXCEPT
        !.activeFires = fires,
        !.firesData = IF u.firesSource THEN shown ELSE @,
        !.markers = @ \o [i \in 1..Len(shown) |-> FireMarker(shown[i])]]

\* fetchAndDisplayFires after the await of getActiveFires: setActiveFires,
\* the fire markers removed, the data of the 'fires' source set (when the
\* source is there), one marker pushed per fire
DisplayFires(u, fires) ==
  LET shown == SelectSeq(fires, Drawable)
  IN [u EXCEPT
        !.activeFires = fires,
        !.firesData = IF u.firesSource THEN shown ELSE @,
        !.markers = SelectSeq(@, NotFireMarker)
                      \o [i \in 1..Len(shown) |-> FireMarker(shown[i])]]

\* the geolocation success callback of getUserLocation
ShowUserLocation(u, newLocation) ==
  [u EXCEPT !.userLocation = newLocation,
            !.markers = Append(SelectSeq(@, NotUserMarker), UserMarker(newLocation))]

\* the geometry of a route that has none (undefined in the response),
\* written as the line without a point, which no route of the model has
NoGeometry == <<>>

\* ShowRoute ending the loading at the end of the try block, with no finally
\* clause
ShowRoute_NoFinally(u, route) ==
  IF route = Null
  THEN [u EXCEPT !.routeLoading = FALSE]
  ELSE IF route.geometry = NoGeometry
  THEN [u EXCEPT !.routeSource = route.geometry,
                 !.routeLayer = TRUE,
                 !.currentRoute = route,
                 !.error = "Failed to calculate evacuation route"]
  ELSE [u EXCEPT !.routeSource = route.geometry,
                 !.routeLayer = TRUE,
                 !.currentRoute = route,
                 !.routeLoading = FALSE]

\* ShowRoute taking the route off the map and reporting a failure when
\* findSafestRoute returned null
ShowRoute_ClearOnNull(u, route) ==
  IF route = Null
  THEN [u EXCEPT !.routeSource = Null,
                 !.routeLayer = FALSE,
                 !.currentRoute = Null,
                 !.error = "Failed to calculate evacuation route",
                 !.routeLoading = FALSE]
  ELSE [u EXCEPT !.routeSource = route.geometry,
                 !.routeLayer = TRUE,
                 !.currentRoute = route,
                 !.error = IF route.geometry = NoGeometry
                           THEN "Failed to calculate evacuation route" ELSE @,
                 !.routeLoading = FALSE]

\* calculateEvacuationRoute after the await of findSafestRoute: the route is
\* drawn when there is one (reading the coordinates of a route without
\* geometry throws, which the catch clause reports), and the finally clause
\* ends the loading
ShowRoute(u, route) ==
  LET drawn == IF route = Null THEN u
               ELSE [u EXCEPT !.routeSource = route.geometry,
                              !.routeLayer = TRUE,
                              !.currentRoute = route]
      caught == IF route # Null /\ route.geometry = NoGeometry
                THEN [drawn EXCEPT !.error = "Failed to calculate evacuation route"]
                ELSE drawn
  IN [caught EXCEPT !.routeLoading = FALSE]

\* the disabled attribute of the Find Evacuation Route button
FindRouteDisabled(u) == ~u.isOnline \/ u.userLocation = Null \/ u.routeLoading

\* ------------------------------------------------------------------ inputs
\* the grid: two rows of latitude, three columns of longitude
Latitudes == {0, 1}
Longitudes == {0, 1, 2}
Grid == [lat : Latitudes, lng : Longitudes]
\* where the user stands
Starts == [lat : {0}, lng : {0, 1}]
NaNLocation == [lat |-> NaN, lng |-> NaN]

\* a catalog of SafePoints at the locations f[1], f[2], ...: id is the
\* position in the catalog, and the safe point at position closed (if any)
\* is not open
MkSafePoints(f, closed) ==
  [i \in DOMAIN f |-> [id |-> i, location |-> f[i], isOpen |-> (i # closed)]]

\* the catalogs of at most maxLen safe points at the given locations, with
\* at most one closed safe point when withClosed
SafePointLists(locations, withClosed, maxLen) ==
  UNION { { MkSafePoints(f, closed) :
              f \in [1..n -> locations],
              closed \in 0..(IF withClosed THEN n ELSE 0) } : n \in 0..maxLen }

\* FireData as getActiveFires delivers it: numeric coordinates; the fires
\* burn along the southern row
Fires == [latitude : {0}, longitude : Longitudes]
FireLists(maxLen) == UNION { [1..n -> Fires] : n \in 0..maxLen }

\* candidate routes of the directions provider; weight stands for the fields
\* of a Mapbox route object that RouteData does not have
LineA == << <<0, 0>>, <<0, 1>> >>
LineB == << <<0, 0>>, <<1, 1>>, <<1, 2>> >>
OnePoint == << <<0, 0>> >>
RouteA == [geometry |-> LineA, duration |-> 600, distance |-> 3338, weight |-> 1]
RouteB == [geometry |-> LineB, duration |-> 900, distance |-> 6676, weight |-> 2]
RouteGarbage == [geometry |-> OnePoint, duration |-> 0 - 1, distance |-> 0 - 1, weight |-> 3]
ProviderRoutes == {RouteA, RouteB, RouteGarbage}
\* a route that comes without its geometry
RouteNoGeometry == [geometry |-> NoGeometry, duration |-> 600, distance |-> 3338, weight |-> 1]

\* what axios.get can settle with: a rejection (network or HTTP error), a
\* response without body, a body without routes, a body with routes
Responses ==
  { [kind |-> "reject", routes |-> <<>>],
    [kind |-> "nodata", routes |-> <<>>],
    [kind |-> "noroutes", routes |-> <<>>] }
  \cup { [kind |-> "routes", routes |-> rs] :
           rs \in UNION { [1..n -> ProviderRoutes] : n \in 0..MaxRoutes } }

NoResponse == [kind |-> "none", routes |-> <<>>]

\* what a coordinate of an entry of the FIRMS response can be: missing, NaN,
\* the number 0, a number on the grid, a numeric string, another string
RawCoordinates ==
  { JsUndefined, JsNumber(NaN), JsNumber(Zero), JsNumber(0), JsNumber(1),
    JsString(1), JsString(NaN) }

\* the entries of response.data: objects, and null
NullEntry == [type |-> "null", latitude |-> JsUndefined, longitude |-> JsUndefined]
RawEntries ==
  { [type |-> "object", latitude |-> la, longitude |-> lo] :
      la \in RawCoordinates, lo \in RawCoordinates } \cup {NullEntry}

\* what axios.get of the FIRMS url can settle with: a rejection, a response
\* without body, a body that is not an array (text), an array of entries
FirmsResponses ==
  { [kind |-> "reject", data |-> <<>>],
    [kind |-> "nodata", data |-> <<>>],
    [kind |-> "notarray", data |-> <<>>] }
  \cup { [kind |-> "array", data |-> d] :
           d \in UNION { [1..n -> RawEntries] : n \in 0..MaxEntries } }

NoFirmsResponse == [kind |-> "none", data |-> <<>>]

\* ---------------------------------------------------------------- state
VARIABLES
  invoked,       \* the direct invocation of a selector function: arguments and result
  accessToken,   \* NEXT_PUBLIC_MAPBOX_TOKEN is set
  call,          \* the findSafestRoute calls, by call id
  firmsKey,      \* NEXT_PUBLIC_NASA_FIRMS_KEY is set
  fetch,         \* the direct invocation of getActiveFires
  refresh,       \* the activations of fetchAndDisplayFires, by id
  run,           \* the activations of calculateEvacuationRoute, by id
  ui             \* the EvacuationMap component: React state, markers, map

fireVars == <<firmsKey, fetch>>
mapVars == <<refresh, run, ui>>

vars == <<invoked, accessToken, call, fireVars, mapVars>>

CallIds == 1..MaxCalls

NotInvoked ==
  [op |-> "none", location |-> NaNLocation, safePoints |-> <<>>, activeFires |-> <<>>,
   returned |-> FALSE, ret |-> Null]

IdleFetch ==
  [pc |-> "idle", exit |-> "none", requests |-> 0, response |-> NoFirmsResponse,
   ret |-> <<>>, log |-> <<>>]

RefreshIds == 1..MaxRefreshes
RunIds == 1..MaxRuns

IdleRefresh == [pc |-> "idle", fires |-> IdleFetch]
IdleRun == [pc |-> "idle", userLocation |-> Null, fires |-> IdleFetch]

\* the component as first rendered: the useState initial values, no marker,
\* a map that has not fired 'load' yet
InitialUi ==
  [mapLoaded |-> FALSE, isOnline |-> TRUE, userLocation |-> Null,
   activeFires |-> <<>>, markers |-> <<>>,
   firesSource |-> FALSE, firesData |-> <<>>,
   error |-> "", currentRoute |-> Null, routeLoading |-> FALSE,
   routeSource |-> Null, routeLayer |-> FALSE]

\* the component is not mounted
NoComponent ==
  /\ refresh = [f \in RefreshIds |-> IdleRefresh]
  /\ run = [r \in RunIds |-> IdleRun]
  /\ ui = InitialUi

\* getActiveFires is not being invoked, and there is no component
NoFetch ==
  /\ firmsKey = TRUE
  /\ fetch = IdleFetch
  /\ NoComponent

IdleCall ==
  [pc |-> "idle", exit |-> "none",
   userLocation |-> NaNLocation, safePoints |-> <<>>, activeFires |-> <<>>,
   nearest |-> Null, requests |-> <<>>, response |-> NoResponse,
   route |-> [status |-> "pending", value |-> Null],
   ret |-> Null, log |-> <<>>]

\* ------------------------------------------- direct invocations (selector)
SelectorCatalogs == SafePointLists(Grid \cup {NaNLocation}, TRUE, MaxDests)
SelectorSafePoints ==
  { catalog[1] : catalog \in SafePointLists(Grid \cup {NaNLocation}, TRUE, 1) \ {<<>>} }
SelectorFireLists == FireLists(MaxFires)

\* a selector function is about to be invoked on arguments of the bounded sets
InitSelect ==
  /\ \E location \in Starts, activeFires \in SelectorFireLists :
       \/ \E safePoint \in SelectorSafePoints :
            invoked = [op |-> "isRouteSafe", location |-> location,
                       safePoints |-> <<safePoint>>, activeFires |-> activeFires,
                       returned |-> FALSE, ret |-> Null]
       \/ \E safePoints \in SelectorCatalogs :
            invoked = [op |-> "findNearestSafePoint", location |-> location,
                       safePoints |-> safePoints, activeFires |-> activeFires,
                       returned |-> FALSE, ret |-> Null]
  /\ accessToken = TRUE
  /\ call = [c \in CallIds |-> IdleCall]
  /\ NoFetch

CallIsRouteSafe ==
  /\ invoked.op = "isRouteSafe"
  /\ ~invoked.returned
  /\ invoked' = [invoked EXCEPT
                   !.returned = TRUE,
                   !.ret = [value |-> isRouteSafe(invoked.location, invoked.safePoints[1],
                                                  invoked.activeFires, DefaultSafetyRadius)]]
  /\ UNCHANGED <<accessToken, call, fireVars, mapVars>>

CallFindNearestSafePoint ==
  /\ invoked.op = "findNearestSafePoint"
  /\ ~invoked.returned
  /\ invoked' = [invoked EXCEPT
                   !.returned = TRUE,
                   !.ret = findNearestSafePoint(invoked.location, invoked.safePoints,
                                                invoked.activeFires)]
  /\ UNCHANGED <<accessToken, call, fireVars, mapVars>>

NextSelect ==
  \/ CallIsRouteSafe
  \/ CallFindNearestSafePoint

SpecSelect == InitSelect /\ [][NextSelect]_vars

\* -------------------------------------------- direct invocation (distance)
\* the Coordinates handed to calculateDistance: the grid and a third row
DistancePoints == [lat : Latitudes \cup {2}, lng : Longitudes]

\* calculateDistance is about to be invoked on a pair of points, in the
\* order given and in the opposite order
InitDistance ==
  /\ \E point1 \in DistancePoints, point2 \in DistancePoints :
       invoked = [op |-> "calculateDistance", point1 |-> point1, point2 |-> point2,
                  returned |-> FALSE, ret |-> NaN,
                  returnedSwapped |-> FALSE, retSwapped |-> NaN]
  /\ accessToken = TRUE
  /\ call = [c \in CallIds |-> IdleCall]
  /\ NoFetch

CallCalculateDistance ==
  /\ invoked.op = "calculateDistance"
  /\ ~invoked.returned
  /\ invoked' = [invoked EXCEPT
                   !.returned = TRUE,
                   !.ret = calculateDistance(invoked.point1, invoked.point2)]
  /\ UNCHANGED <<accessToken, call, fireVars, mapVars>>

CallCalculateDistanceSwapped ==
  /\ invoked.op = "calculateDistance"
  /\ ~invoked.returnedSwapped
  /\ invoked' = [invoked EXCEPT
                   !.returnedSwapped = TRUE,
                   !.retSwapped = calculateDistance(invoked.point2, invoked.point1)]
  /\ UNCHANGED <<accessToken, call, fireVars, mapVars>>

NextDistance ==
  \/ CallCalculateDistance
  \/ CallCalculateDistanceSwapped

SpecDistance == InitDistance /\ [][NextDistance]_vars

\* ------------------------------------------- direct invocation (fire data)
InitFires ==
  /\ invoked = NotInvoked
  /\ accessToken = TRUE
  /\ call = [c \in CallIds |-> IdleCall]
  /\ firmsKey \in BOOLEAN
  /\ fetch = IdleFetch
  /\ NoComponent

CallGetActiveFires ==
  /\ fetch.pc = "idle"
  /\ fetch' = getActiveFires(fetch, firmsKey)
  /\ UNCHANGED <<invoked, accessToken, call, firmsKey, mapVars>>

\* axios.get settles and getActiveFires runs to its return
FirmsSettles ==
  /\ fetch.pc = "awaitAxios"
  /\ \E response \in FirmsResponses :
       fetch' = getActiveFires_resume(fetch, response)
  /\ UNCHANGED <<invoked, accessToken, call, firmsKey, mapVars>>

NextFires ==
  \/ CallGetActiveFires
  \/ FirmsSettles

SpecFires == InitFires /\ [][NextFires]_vars

\* --------------------------------------------------- findSafestRoute calls
\* InvokeFindSafestRoute keeping the selected destination in a static field
\* of the class: a call made while another one is in flight takes the
\* selection of that other call
InvokeFindSafestRoute_SharedSelection(c, starts, catalogs, fireLists) ==
  /\ call[c].pc = "idle"
  /\ \E userLocation \in starts, sps \in catalogs, fires \in fireLists :
       LET rec == findSafestRoute(call[c], userLocation, sps, fires, accessToken)
           inFlight == { d \in CallIds : call[d].pc \in {"awaitAxios", "awaitRoute"} }
       IN call' = [call EXCEPT ![c] =
                     IF rec.nearest # Null /\ inFlight # {}
                     THEN [rec EXCEPT !.nearest = call[CHOOSE d \in inFlight : TRUE].nearest]
                     ELSE rec]
  /\ UNCHANGED <<invoked, accessToken, fireVars, mapVars>>

InvokeFindSafestRoute(c, starts, catalogs, fireLists) ==
  /\ call[c].pc = "idle"
  /\ \E userLocation \in starts, sps \in catalogs, fires \in fireLists :
       call' = [call EXCEPT ![c] =
                  findSafestRoute(call[c], userLocation, sps, fires, accessToken)]
  /\ UNCHANGED <<invoked, accessToken, fireVars, mapVars>>

\* AxiosSettles with one response slot shared by the calls: the response
\* settles every request that is outstanding
AxiosSettles_SharedResponse(c, responses) ==
  /\ call[c].pc = "awaitAxios"
  /\ \E response \in responses :
       call' = [d \in CallIds |->
                  IF call[d].pc = "awaitAxios"
                  THEN getEvacuationRoute_resume(call[d], response)
                  ELSE call[d]]
  /\ UNCHANGED <<invoked, accessToken, fireVars, mapVars>>

\* axios.get settles and getEvacuationRoute runs to its return
AxiosSettles(c, responses) ==
  /\ call[c].pc = "awaitAxios"
  /\ \E response \in responses :
       call' = [call EXCEPT ![c] = getEvacuationRoute_resume(call[c], response)]
  /\ UNCHANGED <<invoked, accessToken, fireVars, mapVars>>

\* the promise of getEvacuationRoute has settled and findSafestRoute resumes
ResumeFindSafestRoute(c) ==
  /\ call[c].pc = "awaitRoute"
  /\ call' = [call EXCEPT ![c] = findSafestRoute_resume(call[c])]
  /\ UNCHANGED <<invoked, accessToken, fireVars, mapVars>>

InitCalls ==
  /\ invoked = NotInvoked
  /\ accessToken \in BOOLEAN
  /\ call = [c \in CallIds |-> IdleCall]
  /\ NoFetch

\* one call, over every start, every catalog of open safe points on the grid
\* and every list of at most one fire
Catalogs == SafePointLists(Grid, FALSE, MaxDests)
FireSnapshots == FireLists(1)

Init == InitCalls

Next ==
  \/ InvokeFindSafestRoute(1, Starts, Catalogs, FireSnapshots)
  \/ AxiosSettles(1, Responses)
  \/ ResumeFindSafestRoute(1)

Spec == Init /\ [][Next]_vars

\* several calls in flight at once, their responses arriving in any order;
\* each call draws its inputs from a small set of its own
Origin == [lat |-> 0, lng |-> 0]
FarPoint == [lat |-> 0, lng |-> 2]
ConcurrentResponses ==
  { [kind |-> "reject", routes |-> <<>>],
    [kind |-> "routes", routes |-> <<>>],
    [kind |-> "routes", routes |-> <<RouteA>>],
    [kind |-> "routes", routes |-> <<RouteB, RouteA>>] }

ConcurrentStarts == {Origin}
ConcurrentCatalogs == SafePointLists({Origin, FarPoint}, FALSE, 1)
ConcurrentFireLists == {<<>>, <<[latitude |-> 0, longitude |-> 0]>>}

NextConcurrent ==
  \E c \in CallIds :
    \/ InvokeFindSafestRoute(c, ConcurrentStarts, ConcurrentCatalogs, ConcurrentFireLists)
    \/ AxiosSettles(c, ConcurrentResponses)
    \/ ResumeFindSafestRoute(c)

SpecConcurrent == InitCalls /\ [][NextConcurrent]_vars


\* ------------------------------------------------------------ EvacuationMap
\* SAFE_POINTS: the two shelters, at the grid points nearest to them
SAFE_POINTS == MkSafePoints(<< [lat |-> 2, lng |-> 1], [lat |-> 1, lng |-> 0] >>, 0)

\* where the browser locates the user
MapStarts == {Origin}

FireEntry(lat, lng) ==
  [type |-> "object", latitude |-> JsNumber(lat), longitude |-> JsNumber(lng)]

\* what the FIRMS request of the component can settle with
MapFirmsResponses ==
  { [kind |-> "reject", data |-> <<>>],
    [kind |-> "array", data |-> <<FireEntry(0, 2)>>],
    [kind |-> "array", data |-> <<FireEntry(0, 0), FireEntry(0, 2)>>] }

\* what the directions request of the component can settle with
MapResponses ==
  { [kind |-> "reject", routes |-> <<>>],
    [kind |-> "routes", routes |-> <<RouteA>>],
    [kind |-> "routes", routes |-> <<RouteB, RouteA>>] }

\* the module throws without NEXT_PUBLIC_MAPBOX_TOKEN, so the component
\* exists with the token only
InitMap ==
  /\ invoked = NotInvoked
  /\ accessToken = TRUE
  /\ call = [c \in CallIds |-> IdleCall]
  /\ firmsKey \in BOOLEAN
  /\ fetch = IdleFetch
  /\ NoComponent

\* the activation of lowest id that is free
FreeRefresh(f) ==
  /\ refresh[f].pc = "idle"
  /\ \A g \in RefreshIds : refresh[g].pc = "idle" => f <= g

FreeRun(r) ==
  /\ run[r].pc = "idle"
  /\ \A q \in RunIds : run[q].pc = "idle" => r <= q

\* fetchAndDisplayFires from its entry to the await of getActiveFires
fetchAndDisplayFires(f) ==
  refresh' = [refresh EXCEPT ![f] =
                [pc |-> "awaitFires", fires |-> getActiveFires(IdleFetch, firmsKey)]]

\* the map fires 'load': initializeMapLayers, addMapControls, addSafePoints,
\* then fetchInitialData
MapLoads(f) ==
  /\ ~ui.mapLoaded
  /\ FreeRefresh(f)
  /\ ui' = [ui EXCEPT
              !.mapLoaded = TRUE,
              !.firesSource = TRUE,
              !.firesData = <<>>,
              !.markers = @ \o [i \in 1..Len(SAFE_POINTS) |->
                                  SafePointMarker(SAFE_POINTS[i])]]
  /\ fetchAndDisplayFires(f)
  /\ UNCHANGED <<invoked, accessToken, call, fireVars, run>>

\* the five-minute interval fires
IntervalFires(f) ==
  /\ FreeRefresh(f)
  /\ fetchAndDisplayFires(f)
  /\ UNCHANGED <<invoked, accessToken, call, fireVars, run, ui>>

\* a click on Refresh Fire Data
ClickRefreshFireData(f) ==
  /\ ui.isOnline
  /\ FreeRefresh(f)
  /\ fetchAndDisplayFires(f)
  /\ UNCHANGED <<invoked, accessToken, call, fireVars, run, ui>>

\* axios.get of a refresh settles and getActiveFires runs to its return
FirmsSettlesRefresh(f) ==
  /\ refresh[f].pc = "awaitFires"
  /\ refresh[f].fires.pc = "awaitAxios"
  /\ \E response \in MapFirmsResponses :
       refresh' = [refresh EXCEPT
                     ![f].fires = getActiveFires_resume(refresh[f].fires, response)]
  /\ UNCHANGED <<invoked, accessToken, call, fireVars, run, ui>>

\* the promise of getActiveFires has settled and fetchAndDisplayFires runs
\* to its end
DisplayFiresDone(f) ==
  /\ refresh[f].pc = "awaitFires"
  /\ refresh[f].fires.pc = "done"
  /\ ui' = DisplayFires(ui, refresh[f].fires.ret)
  /\ refresh' = [refresh EXCEPT ![f] = IdleRefresh]
  /\ UNCHANGED <<invoked, accessToken, call, fireVars, run>>

\* the browser goes offline or comes back online
OnlineChanges ==
  /\ ui' = [ui EXCEPT !.isOnline = ~@]
  /\ UNCHANGED <<invoked, accessToken, call, fireVars, refresh, run>>

\* a click on Get My Location, answered by the browser with a position
GetUserLocation ==
  /\ ui.isOnline
  /\ \E newLocation \in MapStarts :
       /\ ui.userLocation # newLocation
       /\ ui' = ShowUserLocation(ui, newLocation)
  /\ UNCHANGED <<invoked, accessToken, call, fireVars, refresh, run>>

\* ClickFindEvacuationRoute on a button that routeLoading does not disable
ClickFindEvacuationRoute_NotDisabledWhileLoading(r) ==
  /\ ui.isOnline /\ ui.userLocation # Null
  /\ FreeRun(r)
  /\ ui.mapLoaded
  /\ ui' = [ui EXCEPT !.routeLoading = TRUE]
  /\ run' = [run EXCEPT ![r] =
                [pc |-> "awaitFires", userLocation |-> ui.userLocation,
                 fires |-> getActiveFires(IdleFetch, firmsKey)]]
  /\ UNCHANGED <<invoked, accessToken, call, fireVars, refresh>>

\* a click on Find Evacuation Route: calculateEvacuationRoute from its
\* entry to the await of getActiveFires; the component is rendered again
\* with routeLoading before the browser delivers another event
ClickFindEvacuationRoute(r) ==
  /\ ~FindRouteDisabled(ui)
  /\ FreeRun(r)
  /\ ui.mapLoaded
  /\ ui' = [ui EXCEPT !.routeLoading = TRUE]
  /\ run' = [run EXCEPT ![r] =
                [pc |-> "awaitFires", userLocation |-> ui.userLocation,
                 fires |-> getActiveFires(IdleFetch, firmsKey)]]
  /\ UNCHANGED <<invoked, accessToken, call, fireVars, refresh>>

\* axios.get of the run's fire request settles
FirmsSettlesRun(r) ==
  /\ run[r].pc = "awaitFires"
  /\ run[r].fires.pc = "awaitAxios"
  /\ \E response \in MapFirmsResponses :
       run' = [run EXCEPT ![r].fires = getActiveFires_resume(run[r].fires, response)]
  /\ UNCHANGED <<invoked, accessToken, call, fireVars, refresh, ui>>

\* calculateEvacuationRoute from the await of getActiveFires to the await
\* of findSafestRoute
RunFindsSafestRoute(r) ==
  /\ run[r].pc = "awaitFires"
  /\ run[r].fires.pc = "done"
  /\ call' = [call EXCEPT ![r] =
                findSafestRoute(IdleCall, run[r].userLocation, SAFE_POINTS,
                                run[r].fires.ret, accessToken)]
  /\ run' = [run EXCEPT ![r].pc = "awaitRoute"]
  /\ UNCHANGED <<invoked, accessToken, fireVars, refresh, ui>>

\* findSafestRoute has returned and calculateEvacuationRoute runs to its end
RouteShown(r) ==
  /\ run[r].pc = "awaitRoute"
  /\ call[r].pc = "done"
  /\ ui' = ShowRoute(ui, call[r].ret)
  /\ run' = [run EXCEPT ![r] = IdleRun]
  /\ call' = [call EXCEPT ![r] = IdleCall]
  /\ UNCHANGED <<invoked, accessToken, fireVars, refresh>>

NextMap ==
  \/ \E f \in RefreshIds :
       \/ MapLoads(f)
       \/ IntervalFires(f)
       \/ ClickRefreshFireData(f)
       \/ FirmsSettlesRefresh(f)
       \/ DisplayFiresDone(f)
  \/ OnlineChanges
  \/ GetUserLocation
  \/ \E r \in RunIds :
       \/ ClickFindEvacuationRoute(r)
       \/ FirmsSettlesRun(r)
       \/ RunFindsSafestRoute(r)
       \/ AxiosSettles(r, MapResponses)
       \/ ResumeFindSafestRoute(r)
       \/ RouteShown(r)

SpecMap == InitMap /\ [][NextMap]_vars

\* what the directions request can settle with, a route without geometry
\* included
RouteResponses ==
  MapResponses \cup { [kind |-> "routes", routes |-> <<RouteNoGeometry>>] }

\* the component with the fire data fetched on map load only: no interval
\* and no click on Refresh Fire Data
NextRoute ==
  \/ \E f \in RefreshIds :
       \/ MapLoads(f)
       \/ FirmsSettlesRefresh(f)
       \/ DisplayFiresDone(f)
  \/ OnlineChanges
  \/ GetUserLocation
  \/ \E r \in RunIds :
       \/ ClickFindEvacuationRoute(r)
       \/ FirmsSettlesRun(r)
       \/ RunFindsSafestRoute(r)
       \/ AxiosSettles(r, RouteResponses)
       \/ ResumeFindSafestRoute(r)
       \/ RouteShown(r)

\* getActiveFires has returned to a run that has not gone on yet: the guard
\* of RunFindsSafestRoute, which changes run[r] whenever it is taken
FiresInHand(r) == run[r].pc = "awaitFires" /\ run[r].fires.pc = "done"

\* a run of calculateEvacuationRoute goes on: the two requests settle, and
\* the event loop runs the continuation of each await once its promise has
\* settled. Each is weak fairness of one action; that of RunFindsSafestRoute
\* is written out, with the guard of the action for its ENABLED
RunGoesOn(r) ==
  /\ WF_vars(FirmsSettlesRun(r))
  /\ ([]<>(~FiresInHand(r)) \/ []<><<RunFindsSafestRoute(r)>>_vars)
  /\ WF_vars(AxiosSettles(r, RouteResponses))
  /\ WF_vars(ResumeFindSafestRoute(r))
  /\ WF_vars(RouteShown(r))

SpecRouteFair ==
  InitMap /\ [][NextRoute]_vars /\ \A r \in RunIds : RunGoesOn(r)

\* ===================================================================
\* Properties
\* ===================================================================
Returned ==
  invoked.op = "findNearestSafePoint" /\ invoked.returned /\ invoked.ret # Null

Dist(i) == calculateDistance(invoked.location, invoked.safePoints[i].location)

SafeIndexes ==
  { i \in 1..Len(invoked.safePoints) :
      isRouteSafe(invoked.location, invoked.safePoints[i], invoked.activeFires,
                  DefaultSafetyRadius) }

\* the fire lies within the safety radius of the point
WithinRadius(point, fire) ==
  LET d == calculateDistance(point, FireLocation(fire))
  IN ~IsNaN(d) /\ d < DefaultSafetyRadius

\* C1: findNearestSafePoint never returns a destination for which
\* isRouteSafe, with the same start and fires, is false: what it returns is
\* an element of the input list that isRouteSafe accepts.
C1_NeverReturnsUnsafe ==
  Returned =>
    /\ \E i \in 1..Len(invoked.safePoints) : invoked.ret = invoked.safePoints[i]
    /\ isRouteSafe(invoked.location, invoked.ret, invoked.activeFires, DefaultSafetyRadius)

\* a destination was returned although an unsafe destination of the list is
\* strictly nearer to the start
C1_Witness ==
  /\ Returned
  /\ \E i \in 1..Len(invoked.safePoints) :
       /\ i \notin SafeIndexes
       /\ Lt(Dist(i), calculateDistance(invoked.location, invoked.ret.location))

\* C2: isRouteSafe returns false exactly when at least one fire of the list
\* lies within the safety radius (5000 m) of the start point or of the
\* destination point, and true otherwise, the empty fire list included; the
\* start point plays no part when a fire is within the radius of the
\* destination.
C2_UnsafeIffFireWithinRadius ==
  (invoked.op = "isRouteSafe" /\ invoked.returned) =>
    LET dest == invoked.safePoints[1].location
        near == \E k \in 1..Len(invoked.activeFires) :
                  \/ WithinRadius(invoked.location, invoked.activeFires[k])
                  \/ WithinRadius(dest, invoked.activeFires[k])
        nearDest == \E k \in 1..Len(invoked.activeFires) :
                      WithinRadius(dest, invoked.activeFires[k])
    IN /\ invoked.ret.value = ~near
       /\ nearDest => invoked.ret.value = FALSE

\* isRouteSafe said false on a list of several fires none of which is within
\* the radius of the start
C2_Witness ==
  /\ invoked.op = "isRouteSafe"
  /\ invoked.returned
  /\ invoked.ret.value = FALSE
  /\ Len(invoked.activeFires) >= 2
  /\ \A k \in 1..Len(invoked.activeFires) :
       ~WithinRadius(invoked.location, invoked.activeFires[k])

\* every location handed to the selector is a Coordinate of the data model
\* (numbers, no NaN)
ValidCoordinates ==
  \A i \in 1..Len(invoked.safePoints) :
    ~IsNaN(invoked.safePoints[i].location.lat) /\ ~IsNaN(invoked.safePoints[i].location.lng)

\* C3: when at least one destination passes the safety filter (and the
\* locations are valid coordinates), findNearestSafePoint returns the safe
\* destination at minimum distance from the start, and among several safe
\* destinations at that minimum distance the one that comes first in the
\* input sequence.
C3_NearestSafeFirstOnTie ==
  (invoked.op = "findNearestSafePoint" /\ invoked.returned /\ ValidCoordinates
     /\ SafeIndexes # {}) =>
    \E m \in SafeIndexes :
      /\ invoked.ret = invoked.safePoints[m]
      /\ \A j \in SafeIndexes : Dist(m) <= Dist(j)
      /\ \A j \in SafeIndexes : Dist(j) = Dist(m) => m <= j

\* the destination returned has a safe destination after it in the list
\* that is elsewhere and exactly as near
C3_Witness ==
  /\ Returned
  /\ ValidCoordinates
  /\ \E j \in SafeIndexes :
       /\ j > invoked.ret.id
       /\ Dist(j) = Dist(invoked.ret.id)
       /\ invoked.safePoints[j].location # invoked.ret.location

\* both coordinates of the i-th destination are numbers
ValidLocation(i) ==
  /\ ~IsNaN(invoked.safePoints[i].location.lat)
  /\ ~IsNaN(invoked.safePoints[i].location.lng)

\* C24: a destination whose location has a NaN coordinate is never returned
\* by findNearestSafePoint when the list also holds a safe destination with
\* valid coordinates, whatever the positions of the two in the list.
C24_NeverReturnsNaNLocated ==
  (invoked.op = "findNearestSafePoint" /\ invoked.returned
     /\ \E i \in SafeIndexes : ValidLocation(i)) =>
    /\ invoked.ret # Null
    /\ ~IsNaN(invoked.ret.location.lat)
    /\ ~IsNaN(invoked.ret.location.lng)

\* C11: findNearestSafePoint called directly with an empty destination
\* sequence returns null ("none found") and raises no error, for any start
\* and any fire list.
C11_EmptyListReturnsNull ==
  (invoked.op = "findNearestSafePoint" /\ invoked.returned
     /\ Len(invoked.safePoints) = 0) => invoked.ret = Null

\* the selector has returned on an empty destination sequence and a fire
\* list with a fire within the radius of the start and one beyond it
C11_Witness ==
  /\ invoked.op = "findNearestSafePoint"
  /\ invoked.returned
  /\ Len(invoked.safePoints) = 0
  /\ \E k \in 1..Len(invoked.activeFires) :
       WithinRadius(invoked.location, invoked.activeFires[k])
  /\ \E k \in 1..Len(invoked.activeFires) :
       ~WithinRadius(invoked.location, invoked.activeFires[k])

\* C17: calculateDistance is symmetric: calculateDistance(a, b) equals
\* calculateDistance(b, a) exactly, for all coordinates a and b.
C17_DistanceSymmetric ==
  (invoked.op = "calculateDistance" /\ invoked.returned /\ invoked.returnedSwapped) =>
    invoked.ret = invoked.retSwapped

\* both distances of two points on different rows and different columns
\* have been computed, and they are not zero
C17_Witness ==
  /\ invoked.op = "calculateDistance"
  /\ invoked.returned
  /\ invoked.returnedSwapped
  /\ invoked.point1.lat # invoked.point2.lat
  /\ invoked.point1.lng # invoked.point2.lng
  /\ invoked.ret > 0

\* C18: calculateDistance(a, a) is 0 for every coordinate a.
C18_DistanceToSelfIsZero ==
  (invoked.op = "calculateDistance" /\ invoked.returned
     /\ invoked.point1 = invoked.point2) => invoked.ret = 0

\* the distance of a point away from the south-west corner of the grid to
\* itself has been computed
C18_Witness ==
  /\ invoked.op = "calculateDistance"
  /\ invoked.returned
  /\ invoked.point1 = invoked.point2
  /\ invoked.point1.lat > 0
  /\ invoked.point1.lng > 0

\* C10: findNearestSafePoint never returns a destination whose isOpen flag
\* is false.
C10_NeverReturnsClosed == Returned => invoked.ret.isOpen

\* --------------------------------------------------- findSafestRoute calls
Done(c) == call[c].pc = "done"

\* the request to the provider failed, or was not possible for lack of the
\* token, or the provider returned no candidate route
ProviderFailed(c) ==
  /\ call[c].nearest # Null
  /\ \/ ~accessToken
     \/ call[c].response.kind \in {"reject", "nodata", "noroutes"}
     \/ call[c].response.kind = "routes" /\ Len(call[c].response.routes) = 0

\* what happened to call c, read off its inputs and its provider's answer
Outcome(c) ==
  IF Len(call[c].safePoints) = 0 THEN "NoDestinationsConfigured"
  ELSE IF findNearestSafePoint(call[c].userLocation, call[c].safePoints,
                               call[c].activeFires) = Null
  THEN "NoSafeDestinationFound"
  ELSE IF ProviderFailed(c) THEN "RouteProviderUnavailable"
  ELSE "Success"

\* C4: findSafestRoute called with an empty destination catalog returns the
\* failure outcome NoDestinationsConfigured: it returns null from the
\* empty-catalog branch, having reported "No safe points available" and
\* nothing else, and without a request to the provider.
C4_EmptyCatalogFails ==
  \A c \in CallIds :
    (Done(c) /\ Len(call[c].safePoints) = 0) =>
      /\ call[c].ret = Null
      /\ call[c].exit = "L70"
      /\ call[c].log = <<"No safe points available">>
      /\ call[c].requests = <<>>

\* a call with an empty catalog and a non-empty fire list has returned
C4_Witness ==
  \E c \in CallIds :
    Done(c) /\ Len(call[c].safePoints) = 0 /\ Len(call[c].activeFires) > 0

\* C5: when the route provider request fails (missing credentials, network
\* or transport error) or the provider returns zero candidate routes,
\* findSafestRoute ends with the failure value: it returns (no exception
\* leaves it) and what it returns is null, never a route record.
C5_ProviderFailureIsNull ==
  \A c \in CallIds :
    (Done(c) /\ ProviderFailed(c)) =>
      /\ call[c].ret = Null
      /\ call[c].exit \in {"L83", "L86"}
      /\ call[c].route.status = "fulfilled"

\* a call has ended after the provider answered with an empty route list
C5_Witness ==
  \E c \in CallIds :
    /\ Done(c)
    /\ accessToken
    /\ call[c].response.kind = "routes"
    /\ Len(call[c].response.routes) = 0

\* C6: every failure of findSafestRoute is a distinguishable outcome: two
\* finished calls that returned the same value had the same outcome
\* (NoDestinationsConfigured, NoSafeDestinationFound,
\* RouteProviderUnavailable or success).
C6_OutcomesDistinguishable ==
  \A c1, c2 \in CallIds :
    (Done(c1) /\ Done(c2) /\ call[c1].ret = call[c2].ret) => Outcome(c1) = Outcome(c2)

\* C7: on success findSafestRoute returns geometry, duration and distance of
\* the first candidate of the provider's response, and that response answers
\* the one request made, for the pair (start, location of the selected
\* destination).
C7_FirstCandidateForSelected ==
  \A c \in CallIds :
    (Done(c) /\ call[c].ret # Null) =>
      /\ call[c].response.kind = "routes"
      /\ Len(call[c].response.routes) >= 1
      /\ call[c].ret = [geometry |-> call[c].response.routes[1].geometry,
                        duration |-> call[c].response.routes[1].duration,
                        distance |-> call[c].response.routes[1].distance]
      /\ call[c].requests =
           << [start |-> call[c].userLocation,
               end |-> findNearestSafePoint(call[c].userLocation, call[c].safePoints,
                                            call[c].activeFires).location] >>

\* a call succeeded on a response whose second candidate is shorter and
\* faster than the first, with a selected destination that is not the first
\* of the catalog
C7_Witness ==
  \E c \in CallIds :
    /\ Done(c)
    /\ call[c].ret # Null
    /\ Len(call[c].response.routes) >= 2
    /\ call[c].response.routes[2].distance < call[c].response.routes[1].distance
    /\ call[c].response.routes[2].duration < call[c].response.routes[1].duration
    /\ call[c].response.routes[2].distance >= 0
    /\ call[c].nearest.id > 1

\* C8: when the provider's response has more than one candidate route, the
\* result of findSafestRoute keeps the candidates after the first in its
\* alternatives field.
C8_AlternativesRetained ==
  \A c \in CallIds :
    (Done(c) /\ call[c].response.kind = "routes" /\ Len(call[c].response.routes) > 1) =>
      /\ "alternatives" \in DOMAIN call[c].ret
      /\ call[c].ret.alternatives =
           [k \in 1..(Len(call[c].response.routes) - 1) |->
              RouteDataOf(call[c].response.routes[k + 1])]

\* C16: every RouteResult returned by findSafestRoute has a geometry of at
\* least two points, a distance >= 0 and a duration >= 0, whatever the
\* provider's response contains.
C16_RouteResultWellFormed ==
  \A c \in CallIds :
    (Done(c) /\ call[c].ret # Null) =>
      /\ Len(call[c].ret.geometry) >= 2
      /\ call[c].ret.distance >= 0
      /\ call[c].ret.duration >= 0

\* some fire of the call's list lies within the safety radius of its start
StartExposed(c) ==
  \E k \in 1..Len(call[c].activeFires) :
    WithinRadius(call[c].userLocation, call[c].activeFires[k])

\* what the selector returns on the inputs of call c
Selected(c) ==
  findNearestSafePoint(call[c].userLocation, call[c].safePoints, call[c].activeFires)

\* C21: if the start point itself lies within the safety radius of a fire,
\* findNearestSafePoint returns none for every destination list, and
\* findSafestRoute returns the failure value at once, without a route and
\* without a request, however far the destinations are from the fires.
C21_ExposedStartFindsNone ==
  \A c \in CallIds :
    (call[c].pc # "idle" /\ StartExposed(c)) =>
      /\ Selected(c) = Null
      /\ call[c].nearest = Null
      /\ Done(c)
      /\ call[c].ret = Null
      /\ call[c].requests = <<>>

\* a call has ended whose start is within the radius of the fire while a
\* destination of its catalog is beyond the radius of every fire
C21_Witness ==
  \E c \in CallIds :
    /\ Done(c)
    /\ StartExposed(c)
    /\ \E i \in 1..Len(call[c].safePoints) :
         \A k \in 1..Len(call[c].activeFires) :
           ~WithinRadius(call[c].safePoints[i].location, call[c].activeFires[k])

\* C22: findSafestRoute never sends a request to the route provider when
\* the catalog is empty or the selector finds no safe destination; a request
\* is made only once a safe destination is selected, and goes to it.
C22_NoRequestWithoutSelection ==
  \A c \in CallIds :
    /\ (call[c].pc # "idle" /\ (Len(call[c].safePoints) = 0 \/ Selected(c) = Null)) =>
         /\ call[c].requests = <<>>
         /\ call[c].response.kind = "none"
    /\ call[c].requests # <<>> =>
         /\ call[c].nearest # Null
         /\ call[c].nearest = Selected(c)
         /\ call[c].requests[1].end = call[c].nearest.location

\* with the token set, a call on a catalog of two destinations has ended
\* because a fire left none of them safe, and no request was made
C22_Witness ==
  \E c \in CallIds :
    /\ Done(c)
    /\ accessToken
    /\ Len(call[c].safePoints) = 2
    /\ Len(call[c].activeFires) > 0
    /\ call[c].exit = "L78"
    /\ call[c].requests = <<>>

\* C9: a findSafestRoute call issues at most one request to the provider,
\* a failed request is not repeated, and the call has one terminal outcome:
\* once it has returned, nothing of the call changes any more.
C9_OneRequestOneOutcome ==
  /\ [](\A c \in CallIds : Len(call[c].requests) <= 1)
  /\ [](\A c \in CallIds :
          (Done(c) /\ call[c].response.kind # "none") => Len(call[c].requests) = 1)
  /\ [][\A c \in CallIds : Done(c) => call'[c] = call[c]]_vars

\* a call has ended after its only request was rejected
C9_Witness ==
  \E c \in CallIds :
    /\ Done(c)
    /\ call[c].response.kind = "reject"
    /\ Len(call[c].requests) = 1

\* the calls were made with the same start, destinations and fires
SameInputs(c1, c2) ==
  /\ call[c1].pc # "idle"
  /\ call[c2].pc # "idle"
  /\ call[c1].userLocation = call[c2].userLocation
  /\ call[c1].safePoints = call[c2].safePoints
  /\ call[c1].activeFires = call[c2].activeFires

\* C12: findNearestSafePoint and findSafestRoute are stateless and
\* repeatable: two invocations with the same start, destinations and fires
\* select the same destination, and when the provider also answers them
\* alike they end with the same outcome (value returned, exit taken,
\* messages reported), whatever other calls were made.
C12_StatelessRepeatable ==
  \A c1, c2 \in CallIds :
    SameInputs(c1, c2) =>
      /\ call[c1].nearest = call[c2].nearest
      /\ (Done(c1) /\ Done(c2) /\ call[c1].response = call[c2].response) =>
           /\ call[c1].ret = call[c2].ret
           /\ call[c1].exit = call[c2].exit
           /\ call[c1].log = call[c2].log

\* two calls with the same inputs and the same provider response have
\* returned a route, and a third call with another catalog and another
\* response has returned as well
C12_Witness ==
  \E c1, c2, c3 \in CallIds :
    /\ c1 # c2 /\ c1 # c3 /\ c2 # c3
    /\ Done(c1) /\ Done(c2) /\ Done(c3)
    /\ SameInputs(c1, c2)
    /\ call[c1].response = call[c2].response
    /\ call[c1].ret # Null
    /\ call[c3].safePoints # call[c1].safePoints
    /\ call[c3].nearest # Null
    /\ call[c3].response.kind # "none"
    /\ call[c3].response # call[c1].response

\* findSafestRoute run from entry to return on its own, with the provider
\* answering response
RunAlone(userLocation, safePoints, activeFires, token, response) ==
  LET atFirstAwait == findSafestRoute(IdleCall, userLocation, safePoints, activeFires, token)
      atSecondAwait == IF atFirstAwait.pc = "awaitAxios"
                       THEN getEvacuationRoute_resume(atFirstAwait, response)
                       ELSE atFirstAwait
  IN IF atSecondAwait.pc = "awaitRoute"
     THEN findSafestRoute_resume(atSecondAwait)
     ELSE atSecondAwait

\* C13: when several findSafestRoute calls with different inputs are in
\* flight at once and their responses arrive in any order, each call ends
\* as it would have ended run alone on its own inputs and its own response,
\* and no step of one call changes anything of another call.
C13_ConcurrentCallsIndependent ==
  /\ [](\A c \in CallIds :
          Done(c) => call[c] = RunAlone(call[c].userLocation, call[c].safePoints,
                                        call[c].activeFires, accessToken,
                                        call[c].response))
  /\ [][\A c, d \in CallIds :
          (c # d /\ call'[c] # call[c]) => call'[d] = call[d]]_vars

\* two calls with different inputs are in flight, both answered by the
\* provider and the answers different, while a third call has returned a
\* route
C13_Witness ==
  \E c1, c2, c3 \in CallIds :
    /\ c1 # c2 /\ c1 # c3 /\ c2 # c3
    /\ call[c1].pc = "awaitRoute" /\ call[c2].pc = "awaitRoute"
    /\ call[c1].response.kind # "none" /\ call[c2].response.kind # "none"
    /\ call[c1].response # call[c2].response
    /\ call[c1].safePoints # call[c2].safePoints
    /\ Done(c3) /\ call[c3].ret # Null

\* ----------------------------------------------------------- getActiveFires
\* the coordinate is there in the provider's entry, and is not NaN
Present(x) == x.type # "undefined" /\ ~(x.type = "number" /\ IsNaN(x.v))

\* the entries of the response with both coordinates present
PresentIndexes(data) ==
  { k \in 1..Len(data) : Present(data[k].latitude) /\ Present(data[k].longitude) }

\* C14: the sequence returned by getActiveFires never contains an entry
\* whose latitude or longitude was missing or NaN in the provider's
\* response: each entry returned comes, in order, from an entry of the
\* response that has both coordinates, and carries no NaN.
C14_NoMissingOrNaNCoordinate ==
  fetch.pc = "done" =>
    /\ \A i \in 1..Len(fetch.ret) :
         ~IsNaN(fetch.ret[i].latitude) /\ ~IsNaN(fetch.ret[i].longitude)
    /\ \E g \in [1..Len(fetch.ret) -> PresentIndexes(fetch.response.data)] :
         /\ \A i, j \in 1..Len(fetch.ret) : i < j => g[i] < g[j]
         /\ \A i \in 1..Len(fetch.ret) :
              fetch.ret[i] = ToFireData(fetch.response.data[g[i]])

\* getActiveFires returned a fire from a response in which an earlier entry
\* lacks its latitude or has a NaN longitude
C14_Witness ==
  /\ fetch.pc = "done"
  /\ Len(fetch.ret) = 1
  /\ Len(fetch.response.data) = 2
  /\ \/ fetch.response.data[1].latitude = JsUndefined
     \/ fetch.response.data[1].longitude = JsNumber(NaN)
  /\ fetch.response.data[1].type = "object"

\* the coordinate is a valid number: Number() of it is not NaN (0 included)
ValidNumber(x) == ~IsNaN(ToNumber(x))

\* the entry has a valid latitude and a valid longitude
ValidEntry(fire) == ValidNumber(fire.latitude) /\ ValidNumber(fire.longitude)

\* the entries of the response with valid coordinates, in order, as fires
ValidFires(data) ==
  LET kept == SelectSeq(data, ValidEntry)
  IN [i \in 1..Len(kept) |-> ToFireData(kept[i])]

\* C23: getActiveFires keeps every entry of the provider's response whose
\* latitude and longitude are both valid numbers, a coordinate of exactly 0
\* included: the output is the sub-sequence of those entries, in order.
C23_KeepsEveryValidEntry ==
  (fetch.pc = "done" /\ fetch.exit = "L25") =>
    fetch.ret = ValidFires(fetch.response.data)

\* what the caller of getActiveFires has in hand once the promise settled:
\* the array the promise was fulfilled with
CallerObserves(rec) == rec.ret

\* getActiveFires has ended for lack of the key or on a failed request
FetchFailed ==
  /\ fetch.pc = "done"
  /\ ~firmsKey \/ fetch.response.kind = "reject"

\* C15: when the fire-data credentials are missing or the request fails,
\* getActiveFires returns (nothing is thrown) an empty sequence together
\* with a failure the caller can observe: what the caller has in hand
\* differs from what it has after a successful fetch that found no fire.
C15_FailureObservable ==
  FetchFailed =>
    /\ fetch.exit \in {"L13", "L42"}
    /\ fetch.ret = <<>>
    /\ CallerObserves(fetch) #
         CallerObserves(getActiveFires_resume(getActiveFires(IdleFetch, TRUE),
                                              [kind |-> "array", data |-> <<>>]))

\* ------------------------------------------------------------ EvacuationMap
\* C25: every run of calculateEvacuationRoute that set routeLoading to true
\* eventually sets it back to false, whether the route was found,
\* findSafestRoute returned null, or an exception was thrown on the way.
C25_RouteLoadingEventuallyReset ==
  \A r \in RunIds :
    (run[r].pc # "idle" /\ ui.routeLoading) ~> (run[r].pc = "idle" /\ ~ui.routeLoading)

\* a run has ended in the catch clause, on a route without geometry, and
\* the loading is over
C25_Witness ==
  /\ ui.currentRoute # Null
  /\ ui.currentRoute.geometry = NoGeometry
  /\ ui.error = "Failed to calculate evacuation route"
  /\ ~ui.routeLoading
  /\ \A r \in RunIds : run[r].pc = "idle"

\* C26: when findSafestRoute returns null during calculateEvacuationRoute,
\* the component leaves currentRoute, the 'route' source and layer of the
\* map and the error message as they were: a route displayed before stays
\* on screen and no failure is shown.
C26_NullRouteChangesNothing ==
  [][\A r \in RunIds :
       (run[r].pc = "awaitRoute" /\ call[r].pc = "done" /\ call[r].ret = Null
          /\ run'[r].pc = "idle") =>
         /\ ui'.currentRoute = ui.currentRoute
         /\ ui'.routeSource = ui.routeSource
         /\ ui'.routeLayer = ui.routeLayer
         /\ ui'.error = ui.error]_vars

\* findSafestRoute has returned null to a run, a fire being too close to
\* the user, while the route drawn by an earlier run is on the map and no
\* error is shown
C26_Witness ==
  \E r \in RunIds :
    /\ run[r].pc = "awaitRoute"
    /\ call[r].pc = "done"
    /\ call[r].ret = Null
    /\ call[r].exit = "L78"
    /\ ui.currentRoute # Null
    /\ ui.routeLayer
    /\ ui.routeSource = ui.currentRoute.geometry
    /\ ui.error = ""

\* the fire markers on the map, and the markers a fire list stands for
FireMarkersOf(u) == SelectSeq(u.markers, IsFireMarker)
MarkersFor(fires) == [i \in 1..Len(fires) |-> FireMarker(fires[i])]

\* this step is the completion of refresh f
Completes(f) == refresh[f].pc = "awaitFires" /\ refresh'[f].pc = "idle"

\* C19: after any sequence of fire refreshes (on map load, periodic or by
\* button, possibly overlapping) the stored fire list and the fire markers
\* are exactly those of the most recently completed fetch: a completing
\* fetch replaces list and markers by what it fetched, nothing else changes
\* them, and the markers on the map are always those of the stored list.
C19_FetchReplacesWholesale ==
  /\ [](FireMarkersOf(ui) = MarkersFor(ui.activeFires))
  /\ [][\A f \in RefreshIds :
          Completes(f) =>
            /\ ui'.activeFires = refresh[f].fires.ret
            /\ FireMarkersOf(ui') = MarkersFor(refresh[f].fires.ret)]_vars
  /\ [][(\A f \in RefreshIds : ~Completes(f)) =>
          /\ ui'.activeFires = ui.activeFires
          /\ FireMarkersOf(ui') = FireMarkersOf(ui)]_vars

\* a fetch has put two fires on the map, next to the markers of the user
\* and of the shelters, while a second fetch has come back with one fire
\* and a third request is still out
C19_Witness ==
  /\ Len(ui.activeFires) = 2
  /\ Len(ui.markers) > Len(ui.activeFires) + Len(SAFE_POINTS)
  /\ \E f, g \in RefreshIds :
       /\ refresh[f].pc = "awaitFires"
       /\ refresh[f].fires.pc = "done"
       /\ Len(refresh[f].fires.ret) = 1
       /\ refresh[g].pc = "awaitFires"
       /\ refresh[g].fires.pc = "awaitAxios"

\* the calculateEvacuationRoute activations that have not ended
Outstanding == { r \in RunIds : run[r].pc # "idle" }

\* C20: in the map component at most one evacuation-route calculation is
\* outstanding at any time: while one is, routeLoading is true and the
\* Find Evacuation Route button is disabled, so that a second
\* calculateEvacuationRoute cannot start before the first has finished.
C20_AtMostOneRouteCalculation ==
  /\ Cardinality(Outstanding) <= 1
  /\ Outstanding # {} => (ui.routeLoading /\ FindRouteDisabled(ui))

\* a calculation waits for the directions provider while the user is
\* online and located: only routeLoading keeps the button disabled
C20_Witness ==
  \E r \in RunIds :
    /\ run[r].pc = "awaitRoute"
    /\ call[r].pc = "awaitAxios"
    /\ ui.isOnline
    /\ ui.userLocation # Null

====
